---- MODULE Spec2Model ----
(***************************************************************************)
(* A model of the oximeter PWA: the frame decoder (bufferToSamples), the   *)
(* device session kept by the App component (connect, reconnect,           *)
(* setupDevice, the notification handler, the disconnect and online        *)
(* handlers) and the durable store of utils/storage (saveReading,          *)
(* getLatestReading, getReadings, getUnsyncedReadings,                     *)
(* markReadingsAsSynced) over IndexedDB and localStorage.                  *)
(*                                                                         *)
(* Every await of the code is a point where another handler may run, so    *)
(* every asynchronous function is split into one action per await.         *)
(***************************************************************************)
EXTENDS Integers, Sequences, FiniteSets, TLC

\* ---------------------------------------------------------------- constants

\* the waveform buffer keeps the last 200 samples: slice(-200 + k)
W == 200
\* header byte of a measurement frame, 0xF1
TagMeasure == 241
\* header byte of a waveform frame, 0xF0
TagWaveform == 240
\* a measurement frame has at least 4 bytes
MeasureMinLen == 4
\* useState("--"): no value displayed yet
Dash == -1
\* useState(null) of lastReadingTime, and new Date(0), the epoch
NoTime == 0

\* ------------------------------------------------------------------- bounds

\* notifications delivered in one behaviour
MaxFrames == 3
\* listeners added to the notify characteristic during one GATT connection
\* (one per setupDevice run that succeeds), and so the runs in flight
MaxListeners == 2
\* the clock (new Date()) runs from 1 to MaxClock
MaxClock == 2
\* store operations invoked by an external caller in one behaviour
MaxCalls == 2
\* readings already persisted when the application starts
MaxStored == 2
\* waveform frames delivered in one behaviour of the waveform specification
MaxWaveFrames == 2
\* bytes in a frame of the decoder specification
MaxBytes == 4

\* ------------------------------------------------------------------ helpers

Null == "null"

Min(a, b) == IF a < b THEN a ELSE b
Max(a, b) == IF a > b THEN a ELSE b

\* Array.prototype.slice(n) with one argument: a negative n counts from the
\* end, and the start is clamped to [0, length]
JsSlice(s, n) ==
  LET start == IF n < 0 THEN Max(Len(s) + n, 0) ELSE Min(n, Len(s))
  IN  SubSeq(s, start + 1, Len(s))

NoSample == [type |-> "null", bpm |-> 0, spo2 |-> 0, samples |-> <<>>]

\* bufferToSamples without the length test of the measurement frame
bufferToSamples_NoLengthTest(arr) ==
  LET header == IF Len(arr) >= 1 THEN arr[1] ELSE -1
  IN  IF header = TagMeasure /\ Len(arr) >= 3
        THEN [type |-> "measure", bpm |-> arr[2], spo2 |-> arr[3], samples |-> <<>>]
      ELSE IF header = TagWaveform
        THEN [type |-> "waveform", bpm |-> 0, spo2 |-> 0, samples |-> Tail(arr)]
      ELSE [type |-> "null", bpm |-> 0, spo2 |-> 0, samples |-> <<>>]

\* bufferToSamples taking every frame that is not a measurement for a waveform
bufferToSamples_NoTagTest(arr) ==
  LET header == IF Len(arr) >= 1 THEN arr[1] ELSE -1
  IN  IF header = TagMeasure /\ Len(arr) >= MeasureMinLen
        THEN [type |-> "measure", bpm |-> arr[2], spo2 |-> arr[3], samples |-> <<>>]
      ELSE IF Len(arr) >= 1
        THEN [type |-> "waveform", bpm |-> 0, spo2 |-> 0, samples |-> Tail(arr)]
      ELSE [type |-> "null", bpm |-> 0, spo2 |-> 0, samples |-> <<>>]

\* bufferToSamples reading the vitals one byte further on
bufferToSamples_ShiftedVitals(arr) ==
  LET header == IF Len(arr) >= 1 THEN arr[1] ELSE -1
  IN  IF header = TagMeasure /\ Len(arr) >= MeasureMinLen
        THEN [type |-> "measure", bpm |-> arr[3], spo2 |-> arr[4], samples |-> <<>>]
      ELSE IF header = TagWaveform
        THEN [type |-> "waveform", bpm |-> 0, spo2 |-> 0, samples |-> Tail(arr)]
      ELSE [type |-> "null", bpm |-> 0, spo2 |-> 0, samples |-> <<>>]

\* bufferToSamples: arr[0] of an empty array is undefined and matches no tag
bufferToSamples(arr) ==
  LET header == IF Len(arr) >= 1 THEN arr[1] ELSE -1
  IN  IF header = TagMeasure /\ Len(arr) >= MeasureMinLen
        THEN [type |-> "measure", bpm |-> arr[2], spo2 |-> arr[3], samples |-> <<>>]
      ELSE IF header = TagWaveform
        THEN [type |-> "waveform", bpm |-> 0, spo2 |-> 0, samples |-> Tail(arr)]
      ELSE NoSample

\* the waveform branch of the notification handler
PushWaveform(buf, samples) == JsSlice(buf, -W + Len(samples)) \o samples

\* -------------------------------------------------------------------- state

VARIABLES
  \* App state (useState / useRef)
  bpm, spo2, lastReadingTime, isConnected, error, device, isOnline, waveformBuf,
  \* the peripheral as the platform sees it: the GATT link, and the number of
  \* characteristicvaluechanged listeners on the notify characteristic
  gattConnected, listeners,
  \* connect()/reconnect() invocations in flight, and the frames delivered
  runs, rx,
  \* IndexedDB readings store (index = id), localStorage slot, the
  \* asynchronous store operations, the order of the live transactions
  readings, slot, ops, txOrder,
  \* new Date(), and the background-sync registration 'sync-readings'
  now, swSync

appVars   == <<bpm, spo2, lastReadingTime, isConnected, error, device, isOnline, waveformBuf>>
bleVars   == <<gattConnected, listeners, runs, rx>>
storeVars == <<readings, slot, ops, txOrder>>
vars      == <<appVars, bleVars, storeVars, now, swSync>>

\* ---------------------------------------------------------- the durable store

\* one asynchronous store operation: its arguments, its position (pc), and
\* what it has produced so far
NewOp(kind, by) ==
  [op |-> kind, by |-> by, pc |-> "open",
   bpm |-> 0, spo2 |-> 0, ts |-> 0,
   ids |-> <<>>, lo |-> 0, hi |-> 0, limit |-> 0,
   reqs |-> <<>>, snap |-> <<>>, completed |-> 0, errors |-> 0, failed |-> {},
   fallback |-> "none", out |-> <<>>, n |-> 0]

\* the promise of a store operation has resolved or rejected
Settled(o) == o.pc \in {"resolved", "rejected"}

\* JSON.stringify({bpm, spo2, timestamp}): the slot keeps neither id nor synced
SlotOf(b, s, t) == [bpm |-> b, spo2 |-> s, timestamp |-> t]

\* localStorage.setItem inside try/catch: the write happens unless it throws
SetItem(lsOk, b, s, t) == IF lsOk THEN <<SlotOf(b, s, t)>> ELSE slot

\* localStorage.getItem + JSON.parse: the slot's reading, or null
GetItem == slot

\* transactions on the readings store: readonly ones run together, a
\* readwrite one runs alone, in the order of creation
Mode(kind) == IF kind \in {"saveReading", "markReadingsAsSynced"} THEN "readwrite" ELSE "readonly"

Position(i) == CHOOSE k \in 1..Len(txOrder) : txOrder[k] = i

\* transactions that do not wait for one another
CanRun_NoLock(i) == \E k \in 1..Len(txOrder) : txOrder[k] = i

CanRun(i) ==
  /\ \E k \in 1..Len(txOrder) : txOrder[k] = i
  /\ \A k \in 1..(Position(i) - 1) :
       /\ Mode(ops[i].op) = "readonly"
       /\ Mode(ops[txOrder[k]].op) = "readonly"

Without(q, i) == SelectSeq(q, LAMBDA j : j /= i)

\* open requests that succeed or fail in any order
OpenTurn_AnyOrder(i) == TRUE

\* indexedDB.open: the open requests on one database name are processed one
\* after the other, so the success or error event of a call to initDB fires
\* after those of the calls made before it; the code awaiting initDB runs
\* inside the event's task
OpenTurn(i) == \A j \in 1..(i - 1) : ops[j].pc /= "open"

\* the background sync registered after a successful add (lines 68-72) and by
\* the online handlers: navigator.serviceWorker.ready.then(reg.sync.register)
Register == IF swSync = "unsupported" THEN swSync ELSE "registered"

\* a failed saveReading that takes the displayed vitals back
SaveOpenFail_RollsBack(i) ==
  /\ i \in DOMAIN ops
  /\ ops[i].op = "saveReading" /\ ops[i].pc = "open"
  /\ OpenTurn(i)
  /\ \E lsOk \in BOOLEAN :
       /\ slot' = SetItem(lsOk, ops[i].bpm, ops[i].spo2, now)
       /\ ops' = [ops EXCEPT ![i].pc = "rejected",
                             ![i].fallback = IF lsOk THEN "written" ELSE "threw"]
  /\ bpm' = Dash /\ spo2' = Dash /\ lastReadingTime' = NoTime
  /\ UNCHANGED <<readings, txOrder, isConnected, error, device, isOnline, waveformBuf,
                 bleVars, now, swSync>>

\* initDB rejects inside saveReading: the catch block writes the slot and rethrows
SaveOpenFail(i) ==
  /\ i \in DOMAIN ops
  /\ ops[i].op = "saveReading" /\ ops[i].pc = "open"
  /\ OpenTurn(i)
  /\ \E lsOk \in BOOLEAN :
       /\ slot' = SetItem(lsOk, ops[i].bpm, ops[i].spo2, now)
       /\ ops' = [ops EXCEPT ![i].pc = "rejected",
                             ![i].fallback = IF lsOk THEN "written" ELSE "threw"]
  /\ UNCHANGED <<readings, txOrder, appVars, bleVars, now, swSync>>

\* initDB resolves: the promise executor creates the transaction and issues
\* store.add; a throw inside the executor rejects the returned promise, which
\* the function returns without awaiting, so its catch block does not run
SaveOpenOk(i) ==
  /\ i \in DOMAIN ops
  /\ ops[i].op = "saveReading" /\ ops[i].pc = "open"
  /\ OpenTurn(i)
  /\ \E txOk \in BOOLEAN :
       IF txOk
         THEN /\ ops' = [ops EXCEPT ![i].pc = "request", ![i].ts = now]
              /\ txOrder' = Append(txOrder, i)
         ELSE /\ ops' = [ops EXCEPT ![i].pc = "rejected"]
              /\ txOrder' = txOrder
  /\ UNCHANGED <<readings, slot, appVars, bleVars, now, swSync>>

\* the add request fires success (the record gets the next key, the slot is
\* written, a sync is registered, the promise resolves with the key) or error
\* (the promise rejects; the catch block of saveReading does not run)
SaveAddDone(i) ==
  /\ i \in DOMAIN ops
  /\ ops[i].op = "saveReading" /\ ops[i].pc = "request"
  /\ CanRun(i)
  /\ txOrder' = Without(txOrder, i)
  /\ \E ok \in BOOLEAN, lsOk \in BOOLEAN :
       IF ok
         THEN /\ readings' = Append(readings,
                   [id |-> Len(readings) + 1, bpm |-> ops[i].bpm, spo2 |-> ops[i].spo2,
                    timestamp |-> ops[i].ts, synced |-> FALSE])
              /\ slot' = SetItem(lsOk, ops[i].bpm, ops[i].spo2, ops[i].ts)
              /\ swSync' = IF lsOk THEN Register ELSE swSync
              /\ ops' = [ops EXCEPT ![i].pc = "resolved", ![i].n = Len(readings) + 1]
         ELSE /\ ops' = [ops EXCEPT ![i].pc = "rejected"]
              /\ UNCHANGED <<readings, slot, swSync>>
  /\ UNCHANGED <<appVars, bleVars, now>>

\* a cursor over the timestamp index in direction 'next'
Newer_OldestFirst(q, r) == q.timestamp < r.timestamp \/ (q.timestamp = r.timestamp /\ q.id < r.id)

\* the last entry of the timestamp index: the greatest (timestamp, id)
Newer(q, r) == q.timestamp > r.timestamp \/ (q.timestamp = r.timestamp /\ q.id > r.id)

Records(rs) == {rs[k] : k \in DOMAIN rs}

LatestOf(S) == CHOOSE r \in S : \A q \in S : ~Newer(q, r)

\* a cursor over the timestamp index in direction 'prev'
RECURSIVE DescSeq(_)
DescSeq(S) == IF S = {} THEN <<>> ELSE <<LatestOf(S)>> \o DescSeq(S \ {LatestOf(S)})

Take(s, n) == SubSeq(s, 1, Min(n, Len(s)))

\* the values of the first render, which the closures of the effects with an
\* empty dependency list keep
FirstRenderBpm == Dash
FirstRenderSpo2 == Dash

\* loadLatestReading (the startup effect): its closure holds the bpm and spo2
\* of the first render, "--", so both tests pass whenever it runs
LoadedVitals(i, out) ==
  IF ops[i].by = "startup" /\ out /= <<>>
    THEN /\ bpm' = (IF FirstRenderBpm = Dash THEN out[1].bpm ELSE bpm)
         /\ spo2' = (IF FirstRenderSpo2 = Dash THEN out[1].spo2 ELSE spo2)
         /\ lastReadingTime' = out[1].timestamp
    ELSE UNCHANGED <<bpm, spo2, lastReadingTime>>

\* initDB rejects inside getLatestReading: the catch block returns the slot
LatestOpenFail(i) ==
  /\ i \in DOMAIN ops
  /\ ops[i].op = "getLatestReading" /\ ops[i].pc = "open"
  /\ OpenTurn(i)
  /\ ops' = [ops EXCEPT ![i].pc = "resolved", ![i].out = GetItem]
  /\ LoadedVitals(i, GetItem)
  /\ UNCHANGED <<readings, slot, txOrder, isConnected, error, device, isOnline,
                 waveformBuf, bleVars, now, swSync>>

\* initDB resolves: the executor creates the transaction and opens the cursor
LatestOpenOk(i) ==
  /\ i \in DOMAIN ops
  /\ ops[i].op = "getLatestReading" /\ ops[i].pc = "open"
  /\ OpenTurn(i)
  /\ \E txOk \in BOOLEAN :
       IF txOk
         THEN /\ ops' = [ops EXCEPT ![i].pc = "request"]
              /\ txOrder' = Append(txOrder, i)
         ELSE /\ ops' = [ops EXCEPT ![i].pc = "rejected"]
              /\ txOrder' = txOrder
  /\ UNCHANGED <<readings, slot, appVars, bleVars, now, swSync>>

\* the cursor request fires success (the newest record, else the slot, else
\* null) or error (reject: the promise was returned without await)
LatestCursor(i, ok) ==
  /\ i \in DOMAIN ops
  /\ ops[i].op = "getLatestReading" /\ ops[i].pc = "request"
  /\ CanRun(i)
  /\ txOrder' = Without(txOrder, i)
  /\ IF ok
       THEN LET out == IF readings /= <<>> THEN <<LatestOf(Records(readings))>> ELSE GetItem
            IN  /\ ops' = [ops EXCEPT ![i].pc = "resolved", ![i].out = out]
                /\ LoadedVitals(i, out)
       ELSE /\ ops' = [ops EXCEPT ![i].pc = "rejected"]
            /\ UNCHANGED <<bpm, spo2, lastReadingTime>>
  /\ UNCHANGED <<readings, slot, isConnected, error, device, isOnline,
                 waveformBuf, bleVars, now, swSync>>

LatestCursorDone(i) == \E ok \in BOOLEAN : LatestCursor(i, ok)

\* initDB rejects inside getReadings or getUnsyncedReadings: return []
QueryOpenFail(i) ==
  /\ i \in DOMAIN ops
  /\ ops[i].op \in {"getReadings", "getUnsyncedReadings"} /\ ops[i].pc = "open"
  /\ OpenTurn(i)
  /\ ops' = [ops EXCEPT ![i].pc = "resolved", ![i].out = <<>>]
  /\ UNCHANGED <<readings, slot, txOrder, appVars, bleVars, now, swSync>>

\* the bounds of getReadings: a missing start is the epoch, a missing end is now
RangeStart(lo) == IF lo /= NoTime THEN lo ELSE NoTime
RangeEnd(hi) == IF hi /= NoTime THEN hi ELSE now

\* initDB resolves: the executor creates the transaction, builds the key range
\* (IDBKeyRange.bound throws when start > end) and opens the cursor
QueryOpens(i, txOk) ==
  /\ i \in DOMAIN ops
  /\ ops[i].op \in {"getReadings", "getUnsyncedReadings"} /\ ops[i].pc = "open"
  /\ OpenTurn(i)
  /\ LET start == RangeStart(ops[i].lo)
         end == RangeEnd(ops[i].hi)
     IN  IF txOk /\ (ops[i].op = "getReadings" => start <= end)
           THEN /\ ops' = [ops EXCEPT ![i].pc = "request", ![i].lo = start, ![i].hi = end]
                /\ txOrder' = Append(txOrder, i)
           ELSE /\ ops' = [ops EXCEPT ![i].pc = "rejected"]
                /\ txOrder' = txOrder
  /\ UNCHANGED <<readings, slot, appVars, bleVars, now, swSync>>

QueryOpenOk(i) == \E txOk \in BOOLEAN : QueryOpens(i, txOk)

\* getReadings' cursor: the records of the range, newest first, while
\* readings.length < limit
ReadRange(rs, start, end, limit) ==
  Take(DescSeq({r \in Records(rs) : start <= r.timestamp /\ r.timestamp <= end}), limit)

\* a cursor that stops after limit records, pushed or not
RECURSIVE ScanUnsynced_CountsAll(_, _, _, _)
ScanUnsynced_CountsAll(rs, k, acc, limit) ==
  IF k > Len(rs) \/ ~(k - 1 < limit) THEN acc
  ELSE ScanUnsynced_CountsAll(rs, k + 1, IF rs[k].synced = FALSE THEN Append(acc, rs[k]) ELSE acc, limit)

\* getUnsyncedReadings' cursor: in key order, pushing the records with
\* synced === false, while readings.length < limit
RECURSIVE ScanUnsynced(_, _, _, _)
ScanUnsynced(rs, k, acc, limit) ==
  IF k > Len(rs) \/ ~(Len(acc) < limit) THEN acc
  ELSE ScanUnsynced(rs, k + 1, IF rs[k].synced = FALSE THEN Append(acc, rs[k]) ELSE acc, limit)

\* the cursor of a query runs to its end (resolve with the records read) or a
\* request fires error (reject: the promise was returned without await)
QueryCursor(i, ok) ==
  /\ i \in DOMAIN ops
  /\ ops[i].op \in {"getReadings", "getUnsyncedReadings"} /\ ops[i].pc = "request"
  /\ CanRun(i)
  /\ txOrder' = Without(txOrder, i)
  /\ IF ok
       THEN ops' = [ops EXCEPT ![i].pc = "resolved",
                      ![i].out = IF ops[i].op = "getReadings"
                                   THEN ReadRange(readings, ops[i].lo, ops[i].hi, ops[i].limit)
                                   ELSE ScanUnsynced(readings, 1, <<>>, ops[i].limit)]
       ELSE ops' = [ops EXCEPT ![i].pc = "rejected"]
  /\ UNCHANGED <<readings, slot, appVars, bleVars, now, swSync>>

QueryCursorDone(i) == \E ok \in BOOLEAN : QueryCursor(i, ok)

\* initDB rejects inside markReadingsAsSynced: return 0
MarkOpenFail(i) ==
  /\ i \in DOMAIN ops
  /\ ops[i].op = "markReadingsAsSynced" /\ ops[i].pc = "open"
  /\ OpenTurn(i)
  /\ ops' = [ops EXCEPT ![i].pc = "resolved", ![i].n = 0]
  /\ UNCHANGED <<readings, slot, txOrder, appVars, bleVars, now, swSync>>

\* ids.forEach(id => store.get(id)): one get request per id, in order
GetRequests(ids) == [k \in 1..Len(ids) |-> [t |-> "get", id |-> ids[k]]]

\* initDB resolves: the executor creates the transaction and issues the gets.
\* With no id no request is issued, no handler ever runs and the promise
\* stays pending
MarkOpenOk(i) ==
  /\ i \in DOMAIN ops
  /\ ops[i].op = "markReadingsAsSynced" /\ ops[i].pc = "open"
  /\ OpenTurn(i)
  /\ \E txOk \in BOOLEAN :
       IF ~txOk
         THEN /\ ops' = [ops EXCEPT ![i].pc = "rejected"]
              /\ txOrder' = txOrder
       ELSE IF ops[i].ids = <<>>
         THEN /\ ops' = [ops EXCEPT ![i].pc = "pending"]
              /\ txOrder' = txOrder
       ELSE /\ ops' = [ops EXCEPT ![i].pc = "request", ![i].reqs = GetRequests(ops[i].ids)]
            /\ txOrder' = Append(txOrder, i)
  /\ UNCHANGED <<readings, slot, appVars, bleVars, now, swSync>>

\* if (completed + errors === ids.length) resolve(completed)
Settle(o) ==
  IF o.completed + o.errors = Len(o.ids)
    THEN [o EXCEPT !.pc = "resolved", !.n = o.completed]
    ELSE o

\* a flag that is flipped instead of set
Flagged_Flipped(r) == [r EXCEPT !.synced = ~r.synced]

\* reading.synced = true
Flagged(r) == [r EXCEPT !.synced = TRUE]

\* a put that stamps the record with a later time
PutRecord_Touch(rs, r) == [rs EXCEPT ![r.id] = [r EXCEPT !.timestamp = r.timestamp + 1]]

\* store.put(reading): the whole record read by the get, with synced = true
PutRecord(rs, r) == [rs EXCEPT ![r.id] = r]

\* the oldest pending request of the transaction fires.
\*   get, success: a record gives a put request (queued behind the pending
\*     requests); no record counts as an error
\*   put, success: the record is written; completed++
\*   error: errors++; no handler calls preventDefault, so the transaction
\*     aborts: its writes are undone and every pending request fires error
\*     (AbortError) in turn, errors++ each
MarkRequestDone(i) ==
  /\ i \in DOMAIN ops
  /\ ops[i].op = "markReadingsAsSynced" /\ ops[i].pc = "request"
  /\ CanRun(i)
  /\ LET o == ops[i]
         req == Head(o.reqs)
         snap == IF o.snap = <<>> THEN <<readings>> ELSE o.snap
     IN  \E ok \in BOOLEAN :
           IF ok /\ req.t = "get"
             THEN /\ readings' = readings
                  /\ IF req.id \in DOMAIN readings
                       THEN ops' = [ops EXCEPT ![i] =
                              [o EXCEPT !.snap = snap,
                                        !.reqs = Append(Tail(o.reqs),
                                           [t |-> "put", id |-> req.id,
                                            rec |-> Flagged(readings[req.id])])]]
                       ELSE ops' = [ops EXCEPT ![i] =
                              Settle([o EXCEPT !.snap = snap, !.reqs = Tail(o.reqs),
                                               !.errors = o.errors + 1])]
           ELSE IF ok
             THEN /\ readings' = PutRecord(readings, req.rec)
                  /\ ops' = [ops EXCEPT ![i] =
                       Settle([o EXCEPT !.snap = snap, !.reqs = Tail(o.reqs),
                                        !.completed = o.completed + 1])]
           ELSE /\ readings' = snap[1]
                /\ ops' = [ops EXCEPT ![i] =
                     Settle([o EXCEPT !.snap = snap, !.reqs = <<>>,
                                      !.failed = o.failed \cup {req.id},
                                      !.errors = o.errors + Len(o.reqs)])]
  /\ txOrder' = IF ops'[i].reqs = <<>> THEN Without(txOrder, i) ELSE txOrder
  /\ UNCHANGED <<slot, appVars, bleVars, now, swSync>>

\* ------------------------------------------- calls of the store's operations

Calls == Cardinality({i \in DOMAIN ops : ops[i].by = "api"})

saveReading(by, b, s) == ops' = Append(ops, [NewOp("saveReading", by) EXCEPT !.bpm = b, !.spo2 = s])

CallSaveReading(b, s) ==
  /\ Calls < MaxCalls
  /\ saveReading("api", b, s)
  /\ UNCHANGED <<readings, slot, txOrder, appVars, bleVars, now, swSync>>

CallGetLatestReading ==
  /\ Calls < MaxCalls
  /\ ops' = Append(ops, NewOp("getLatestReading", "api"))
  /\ UNCHANGED <<readings, slot, txOrder, appVars, bleVars, now, swSync>>

CallGetReadings(lo, hi, limit) ==
  /\ Calls < MaxCalls
  /\ ops' = Append(ops, [NewOp("getReadings", "api") EXCEPT !.lo = lo, !.hi = hi, !.limit = limit])
  /\ UNCHANGED <<readings, slot, txOrder, appVars, bleVars, now, swSync>>

CallGetUnsyncedReadings(limit) ==
  /\ Calls < MaxCalls
  /\ ops' = Append(ops, [NewOp("getUnsyncedReadings", "api") EXCEPT !.limit = limit])
  /\ UNCHANGED <<readings, slot, txOrder, appVars, bleVars, now, swSync>>

CallMarkReadingsAsSynced(ids) ==
  /\ Calls < MaxCalls
  /\ ops' = Append(ops, [NewOp("markReadingsAsSynced", "api") EXCEPT !.ids = ids])
  /\ UNCHANGED <<readings, slot, txOrder, appVars, bleVars, now, swSync>>

\* new Date() advances
Tick ==
  /\ now < MaxClock
  /\ now' = now + 1
  /\ UNCHANGED <<appVars, bleVars, storeVars, swSync>>

\* -------------------------------------------------------- the device session

\* the one peripheral the user can pick in the chooser
Oximeter == "oximeter"

NoRun == [kind |-> "none", pc |-> "idle"]

InFlight == {r \in DOMAIN runs : runs[r].pc /= "idle"}

\* a run of connect() or reconnect() takes the first free place
FreeRun == CHOOSE r \in DOMAIN runs : runs[r].pc = "idle" /\ \A q \in 1..(r - 1) : runs[q].pc /= "idle"

\* every run that succeeds adds a listener: at most MaxListeners are modelled
Headroom == listeners + Cardinality(InFlight) < MaxListeners

\* the button calls connect while the indicator shows Disconnected:
\* setError(null), then navigator.bluetooth.requestDevice is pending
connect ==
  /\ ~isConnected
  /\ Headroom
  /\ error' = <<>>
  /\ runs' = [runs EXCEPT ![FreeRun] = [kind |-> "connect", pc |-> "requestDevice"]]
  /\ UNCHANGED <<bpm, spo2, lastReadingTime, isConnected, device, isOnline, waveformBuf,
                 gattConnected, listeners, rx, storeVars, now, swSync>>

\* reconnect() asking for a device again instead of using the remembered one
reconnectBody_Chooser ==
  /\ IF device = Null
       THEN /\ error' = <<"No device to reconnect to.", "Please connect first.">>
            /\ runs' = runs
       ELSE /\ error' = <<>>
            /\ runs' = [runs EXCEPT ![FreeRun] = [kind |-> "connect", pc |-> "requestDevice"]]
  /\ UNCHANGED <<bpm, spo2, lastReadingTime, isConnected, device, isOnline, waveformBuf,
                 gattConnected, listeners, rx, storeVars, now, swSync>>

\* reconnect() up to its await: without a device it only sets the error (two
\* sentences) and returns, else setError(null) and setupDevice(device)
reconnectBody ==
  /\ IF device = Null
       THEN /\ error' = <<"No device to reconnect to.", "Please connect first.">>
            /\ runs' = runs
       ELSE /\ error' = <<>>
            /\ runs' = [runs EXCEPT ![FreeRun] = [kind |-> "reconnect", pc |-> "gattConnect"]]
  /\ UNCHANGED <<bpm, spo2, lastReadingTime, isConnected, device, isOnline, waveformBuf,
                 gattConnected, listeners, rx, storeVars, now, swSync>>

\* the button calls reconnect while the indicator shows Connected
reconnect ==
  /\ isConnected
  /\ Headroom
  /\ reconnectBody

\* reconnect() called on the session in any state
CallReconnect ==
  /\ Headroom
  /\ reconnectBody

\* the catch blocks of connect (silent for NotFoundError) and of reconnect
Caught(kind, name, message) ==
  IF kind = "connect"
    THEN (IF name /= "NotFoundError" THEN <<"Connection failed: ", message>> ELSE error)
    ELSE <<"Reconnection failed: ", message>>

\* requestDevice settles: the user picks the peripheral (setDevice, then
\* setupDevice starts with gatt.connect()), or dismisses the chooser
\* (NotFoundError), or the platform refuses (SecurityError)
RequestDeviceSettles(r, outcome) ==
  /\ runs[r].pc = "requestDevice"
  /\ IF outcome = "selected"
       THEN /\ device' = Oximeter
            /\ runs' = [runs EXCEPT ![r].pc = "gattConnect"]
            /\ error' = error
       ELSE /\ device' = device
            /\ runs' = [runs EXCEPT ![r] = NoRun]
            /\ error' = Caught("connect", outcome, outcome)
  /\ UNCHANGED <<bpm, spo2, lastReadingTime, isConnected, isOnline, waveformBuf,
                 gattConnected, listeners, rx, storeVars, now, swSync>>

RequestDeviceDone(r) ==
  \E outcome \in {"selected", "NotFoundError", "SecurityError"} : RequestDeviceSettles(r, outcome)

\* the names of the DOMException a step of the GATT setup can reject with
StepErrors(pc) ==
  CASE pc = "gattConnect" -> {"NetworkError"}
    [] pc = "getPrimaryService" -> {"NotFoundError", "NetworkError"}
    [] pc = "getCharacteristics" -> {"NotFoundError", "NetworkError"}
    [] pc = "startNotifications" -> {"NetworkError"}

NextStep(pc) ==
  CASE pc = "gattConnect" -> "getPrimaryService"
    [] pc = "getPrimaryService" -> "getCharacteristics"
    [] pc = "getCharacteristics" -> "startNotifications"

\* a step of setupDevice fails: setIsConnected(false), rethrow to the caller
SetupFails(r, name, message) ==
  /\ isConnected' = FALSE
  /\ error' = Caught(runs[r].kind, name, message)
  /\ runs' = [runs EXCEPT ![r] = NoRun]
  /\ UNCHANGED <<gattConnected, listeners>>

\* one await of setupDevice settles. A step other than gatt.connect() can
\* succeed only while the link is up. After getCharacteristics the notify
\* characteristic is looked up; after startNotifications the listener is
\* added, setIsConnected(true), setError(null)
SetupStep(r) ==
  /\ runs[r].pc \in {"gattConnect", "getPrimaryService", "getCharacteristics", "startNotifications"}
  /\ \E outcome \in {"ok", "noNotify"} \cup StepErrors(runs[r].pc) :
       CASE outcome = "ok" /\ runs[r].pc = "gattConnect" ->
              /\ gattConnected' = TRUE
              /\ runs' = [runs EXCEPT ![r].pc = NextStep(runs[r].pc)]
              /\ UNCHANGED <<isConnected, error, listeners>>
         [] outcome = "ok" /\ runs[r].pc \in {"getPrimaryService", "getCharacteristics"} ->
              /\ gattConnected
              /\ runs' = [runs EXCEPT ![r].pc = NextStep(runs[r].pc)]
              /\ UNCHANGED <<isConnected, error, gattConnected, listeners>>
         [] outcome = "ok" /\ runs[r].pc = "startNotifications" ->
              /\ gattConnected
              /\ listeners' = listeners + 1
              /\ isConnected' = TRUE
              /\ error' = <<>>
              /\ runs' = [runs EXCEPT ![r] = NoRun]
              /\ UNCHANGED gattConnected
         [] outcome = "noNotify" ->
              /\ runs[r].pc = "getCharacteristics"
              /\ gattConnected
              /\ SetupFails(r, "Error", "Notify characteristic not found.")
         [] OTHER -> SetupFails(r, outcome, outcome)
  /\ UNCHANGED <<bpm, spo2, lastReadingTime, device, isOnline, waveformBuf,
                 rx, storeVars, now, swSync>>

\* gattserverdisconnected with no handler of the application
Disconnect_Unhandled ==
  /\ gattConnected
  /\ gattConnected' = FALSE
  /\ listeners' = 0
  /\ UNCHANGED <<isConnected, error>>
  /\ UNCHANGED <<bpm, spo2, lastReadingTime, device, isOnline, waveformBuf,
                 runs, rx, storeVars, now, swSync>>

\* gattserverdisconnected: the link is down and the characteristic objects of
\* the connection are dropped with their listeners; handleDisconnect is
\* registered on the remembered device
Disconnect ==
  /\ gattConnected
  /\ gattConnected' = FALSE
  /\ listeners' = 0
  /\ IF device /= Null
       THEN /\ isConnected' = FALSE
            /\ error' = <<"Device disconnected. Reconnect to continue monitoring.">>
       ELSE UNCHANGED <<isConnected, error>>
  /\ UNCHANGED <<bpm, spo2, lastReadingTime, device, isOnline, waveformBuf,
                 runs, rx, storeVars, now, swSync>>

\* the waveform branch run by each of n listeners in turn
RECURSIVE PushTimes(_, _, _)
PushTimes(buf, samples, n) ==
  IF n = 0 THEN buf ELSE PushTimes(PushWaveform(buf, samples), samples, n - 1)

\* the saveReading calls of n listeners
RECURSIVE SaveTimes(_, _, _, _)
SaveTimes(q, b, s, n) ==
  IF n = 0 THEN q
  ELSE SaveTimes(Append(q, [NewOp("saveReading", "handler") EXCEPT !.bpm = b, !.spo2 = s]), b, s, n - 1)

\* characteristicvaluechanged: every listener decodes the value and handles
\* the sample (the listeners run one after the other, without suspension)
HandleNotification(frame) ==
  LET result == bufferToSamples(frame)
  IN  /\ rx' = Append(rx, frame)
      /\ IF result.type = "measure"
           THEN /\ bpm' = result.bpm
                /\ spo2' = result.spo2
                /\ lastReadingTime' = now
                /\ ops' = SaveTimes(ops, result.bpm, result.spo2, listeners)
                /\ UNCHANGED waveformBuf
         ELSE IF result.type = "waveform"
           THEN /\ waveformBuf' = PushTimes(waveformBuf, result.samples, listeners)
                /\ UNCHANGED <<bpm, spo2, lastReadingTime, ops>>
         ELSE UNCHANGED <<bpm, spo2, lastReadingTime, ops, waveformBuf>>
      /\ UNCHANGED <<isConnected, error, device, isOnline, gattConnected, listeners, runs,
                     readings, slot, txOrder, now, swSync>>

\* the frames of the peripheral in the session specification
Frames == {<<TagMeasure, 80, 97>>, <<TagMeasure, 80, 97, 0>>, <<TagWaveform, 50, 51, 52>>}

Notification(frame) ==
  /\ gattConnected /\ listeners > 0
  /\ Len(rx) < MaxFrames
  /\ HandleNotification(frame)

\* window 'online': handleOnline (setIsOnline(true)) and the listener of
\* main.jsx both register the background sync 'sync-readings'
Online ==
  /\ ~isOnline
  /\ isOnline' = TRUE
  /\ swSync' = Register
  /\ UNCHANGED <<bpm, spo2, lastReadingTime, isConnected, error, device, waveformBuf,
                 bleVars, storeVars, now>>

\* window 'offline': handleOffline
Offline ==
  /\ isOnline
  /\ isOnline' = FALSE
  /\ UNCHANGED <<bpm, spo2, lastReadingTime, isConnected, error, device, waveformBuf,
                 bleVars, storeVars, now, swSync>>

\* the browser delivers the sync event 'sync-readings' to the service worker.
\* The worker is the one vite-plugin-pwa generates from the workbox options
\* (precaching and two runtime caches): it has no sync listener, so nothing
\* reads the unsynced readings and nothing marks them
SyncEvent ==
  /\ swSync = "registered" /\ isOnline
  /\ swSync' = "fired"
  /\ UNCHANGED <<appVars, bleVars, storeVars, now>>

\* ------------------------------------------------------------ initial states

\* what earlier sessions left in IndexedDB: records with the keys 1..n, the
\* timestamps in the order of the keys (the clock does not run backwards)
StoredReadings ==
  UNION {
    {rs \in [1..n -> [id : 1..n, bpm : {71, 72}, spo2 : {96, 97},
                      timestamp : 1..MaxClock, synced : BOOLEAN]] :
       /\ \A k \in 1..n : rs[k].id = k /\ rs[k].bpm = 70 + k /\ rs[k].spo2 = 95 + k
       /\ \A k \in 1..(n - 1) : rs[k].timestamp <= rs[k + 1].timestamp}
    : n \in 0..MaxStored}

LastTime(rs) == IF rs = <<>> THEN 1 ELSE rs[Len(rs)].timestamp

\* what earlier sessions left in localStorage: nothing, the copy written with
\* the last successful add, or the reading of a later add that failed
StoredSlots(rs) ==
  {<<>>, <<SlotOf(55, 90, LastTime(rs))>>}
    \cup (IF rs = <<>> THEN {}
          ELSE {<<SlotOf(rs[Len(rs)].bpm, rs[Len(rs)].spo2, rs[Len(rs)].timestamp)>>})

InitApp ==
  /\ bpm = Dash /\ spo2 = Dash /\ lastReadingTime = NoTime
  /\ isConnected = FALSE /\ error = <<>> /\ device = Null
  /\ waveformBuf = <<>>
  /\ gattConnected = FALSE /\ listeners = 0
  /\ runs = [r \in 1..MaxListeners |-> NoRun] /\ rx = <<>>

\* the store on its own, driven through its exported functions
InitStore ==
  /\ InitApp
  /\ isOnline = TRUE
  /\ readings \in StoredReadings
  /\ slot \in StoredSlots(readings)
  /\ ops = <<>> /\ txOrder = <<>>
  /\ now = LastTime(readings)
  /\ swSync = "idle"

\* the arguments of the calls
Ids == 1..(MaxStored + 1)
IdLists == {<<>>} \cup {<<a>> : a \in Ids} \cup {<<a, a + 1>> : a \in 1..MaxStored}
Limits == 0..MaxStored
Times == 0..MaxClock

\* the write path and the latest reading, driven through the exported functions
NextStore ==
  \/ CallSaveReading(80, 97)
  \/ CallGetLatestReading
  \/ \E ids \in IdLists : CallMarkReadingsAsSynced(ids)
  \/ \E i \in 1..Len(ops) : SaveOpenFail(i)
  \/ \E i \in 1..Len(ops) : SaveOpenOk(i)
  \/ \E i \in 1..Len(ops) : SaveAddDone(i)
  \/ \E i \in 1..Len(ops) : LatestOpenFail(i)
  \/ \E i \in 1..Len(ops) : LatestOpenOk(i)
  \/ \E i \in 1..Len(ops) : LatestCursorDone(i)
  \/ \E i \in 1..Len(ops) : MarkOpenFail(i)
  \/ \E i \in 1..Len(ops) : MarkOpenOk(i)
  \/ \E i \in 1..Len(ops) : MarkRequestDone(i)
  \/ Tick

SpecStore == InitStore /\ [][NextStore]_vars

\* the notification handler saves a reading before any other call
HandlerSave ==
  /\ ops = <<>>
  /\ saveReading("handler", 80, 97)
  /\ UNCHANGED <<readings, slot, txOrder, appVars, bleVars, now, swSync>>

\* the id lists of the marking specification: calls that touch the same ids,
\* in either order (an id without a record where the store is smaller)
MarkLists == {<<1>>, <<1, 2>>, <<2, 1>>}

\* Marking: on any stored state, concurrent calls of markReadingsAsSynced,
\* whose transactions run one after the other in the order of their creation
NextMark ==
  \/ \E ids \in MarkLists : CallMarkReadingsAsSynced(ids)
  \/ \E i \in 1..Len(ops) : MarkOpenFail(i)
  \/ \E i \in 1..Len(ops) : MarkOpenOk(i)
  \/ \E i \in 1..Len(ops) : MarkRequestDone(i)

\* the stored states of the marking specification: the records differ in
\* their synced flags only, and the slot is empty
InitMark ==
  /\ InitStore
  /\ slot = <<>>
  /\ \A k \in DOMAIN readings : readings[k].timestamp = 1

SpecMark == InitMark /\ [][NextMark]_vars

\* the caller marks the reading whose id the handler's saveReading returned,
\* each call after everything before it has settled
MarkSaved ==
  /\ ops /= <<>> /\ ops[1].op = "saveReading" /\ ops[1].pc = "resolved"
  /\ \A i \in DOMAIN ops : Settled(ops[i])
  /\ CallMarkReadingsAsSynced(<<ops[1].n>>)

\* Save, then mark, then mark again: one reading is saved on any stored
\* state and its id is marked by one call after the other
NextIdem ==
  \/ HandlerSave
  \/ MarkSaved
  \/ \E i \in 1..Len(ops) : SaveOpenFail(i)
  \/ \E i \in 1..Len(ops) : SaveOpenOk(i)
  \/ \E i \in 1..Len(ops) : SaveAddDone(i)
  \/ \E i \in 1..Len(ops) : MarkOpenFail(i)
  \/ \E i \in 1..Len(ops) : MarkOpenOk(i)
  \/ \E i \in 1..Len(ops) : MarkRequestDone(i)
  \/ Tick

SpecIdem == InitStore /\ [][NextIdem]_vars

\* one markReadingsAsSynced of the caller, at any moment
MarkOnce(ids) ==
  /\ \A i \in DOMAIN ops : ops[i].op /= "markReadingsAsSynced"
  /\ CallMarkReadingsAsSynced(ids)

\* one saveReading of the handler, at any moment
SaveOnce ==
  /\ \A i \in DOMAIN ops : ops[i].op /= "saveReading"
  /\ saveReading("handler", 80, 97)
  /\ UNCHANGED <<readings, slot, txOrder, appVars, bleVars, now, swSync>>

\* Saves and marks together: the handler saves one reading while the caller
\* marks a list of ids, in any order and with their steps interleaved
NextKeep ==
  \/ SaveOnce
  \/ \E ids \in MarkLists : MarkOnce(ids)
  \/ \E i \in 1..Len(ops) : SaveOpenFail(i)
  \/ \E i \in 1..Len(ops) : SaveOpenOk(i)
  \/ \E i \in 1..Len(ops) : SaveAddDone(i)
  \/ \E i \in 1..Len(ops) : MarkOpenFail(i)
  \/ \E i \in 1..Len(ops) : MarkOpenOk(i)
  \/ \E i \in 1..Len(ops) : MarkRequestDone(i)
  \/ Tick

SpecKeep == InitMark /\ [][NextKeep]_vars

\* One markReadingsAsSynced with any list of ids, of stored and of missing
\* readings, the empty list among them. Every step that can be taken is taken
\* in the end: the open request fires, and so does every issued request
MarkSteps ==
  \E i \in 1..Len(ops) : MarkOpenFail(i) \/ MarkOpenOk(i) \/ MarkRequestDone(i)

NextDone ==
  \/ \E ids \in IdLists : MarkOnce(ids)
  \/ \E i \in 1..Len(ops) : MarkOpenFail(i)
  \/ \E i \in 1..Len(ops) : MarkOpenOk(i)
  \/ \E i \in 1..Len(ops) : MarkRequestDone(i)

SpecDone == InitMark /\ [][NextDone]_vars /\ WF_vars(MarkSteps)

\* the caller reads the latest reading after the handler's saveReading and
\* everything before the call have settled
LatestAfterSave ==
  /\ ops /= <<>> /\ ops[1].op = "saveReading"
  /\ \A i \in DOMAIN ops : Settled(ops[i])
  /\ CallGetLatestReading

\* Save, then read the latest: one reading is saved on any stored state, or
\* fails to be, and getLatestReading is called after it
NextRound ==
  \/ HandlerSave
  \/ LatestAfterSave
  \/ \E i \in 1..Len(ops) : SaveOpenFail(i)
  \/ \E i \in 1..Len(ops) : SaveOpenOk(i)
  \/ \E i \in 1..Len(ops) : SaveAddDone(i)
  \/ \E i \in 1..Len(ops) : LatestOpenFail(i)
  \/ \E i \in 1..Len(ops) : LatestOpenOk(i)
  \/ \E i \in 1..Len(ops) : LatestCursorDone(i)
  \/ Tick

SpecRound == InitStore /\ [][NextRound]_vars

\* the queries, driven through the exported functions: one query in each
\* behaviour, on any stored state (a query writes nothing, so no query can
\* change what another one reads)
NextQuery ==
  \/ \E lo \in Times, hi \in Times, limit \in Limits : ops = <<>> /\ CallGetReadings(lo, hi, limit)
  \/ \E limit \in Limits : ops = <<>> /\ CallGetUnsyncedReadings(limit)
  \/ \E i \in 1..Len(ops) : QueryOpenFail(i)
  \/ \E i \in 1..Len(ops) : QueryOpenOk(i)
  \/ \E i \in 1..Len(ops) : QueryCursorDone(i)
  \/ Tick

SpecQuery == InitStore /\ [][NextQuery]_vars

\* ------------------------------------------------------- the specifications

\* The device session: the application after its first render (the startup
\* effect has called getLatestReading), the button, the awaits of connect,
\* reconnect and setupDevice, the disconnect event and the notifications.
\* The store operations that the handlers start stay pending here; their
\* steps are the subject of SpecStream and SpecStore.
Init ==
  /\ InitApp
  /\ isOnline = TRUE
  /\ readings = <<>> /\ slot = <<>>
  /\ ops = <<NewOp("getLatestReading", "startup")>> /\ txOrder = <<>>
  /\ now = 1
  /\ swSync = "idle"

Next ==
  \/ connect
  \/ reconnect
  \/ \E r \in DOMAIN runs : RequestDeviceDone(r)
  \/ \E r \in DOMAIN runs : SetupStep(r)
  \/ Disconnect
  \/ \E frame \in Frames : Notification(frame)

Spec == Init /\ [][Next]_vars

\* The device session driven through its operations: as Spec, with
\* reconnect() called in any state of the session, not only by the button
NextCalls ==
  \/ connect
  \/ CallReconnect
  \/ \E r \in DOMAIN runs : RequestDeviceDone(r)
  \/ \E r \in DOMAIN runs : SetupStep(r)
  \/ Disconnect

SpecCalls == Init /\ [][NextCalls]_vars

\* the state connect() leaves when every step succeeds: the device is
\* remembered, the link is up, one listener is registered
Streaming ==
  /\ isConnected = TRUE /\ error = <<>> /\ device = Oximeter
  /\ gattConnected = TRUE /\ listeners = 1
  /\ runs = [r \in 1..MaxListeners |-> NoRun] /\ rx = <<>>
  /\ waveformBuf = <<>>

\* what a settled loadLatestReading has left in the vitals
Loaded(rs, sl) ==
  IF rs /= <<>> THEN <<LatestOf(Records(rs))>> ELSE sl

\* A streaming session and the store: the session right after a connect()
\* that succeeded, the startup load settled before it (with the vitals it
\* loaded, or none when it failed), then the notifications, the steps of the
\* saveReading calls they start, and the clock. The application never calls
\* markReadingsAsSynced, so what it has stored is unsynced.
InitStream ==
  /\ Streaming
  /\ isOnline = TRUE
  /\ readings \in {rs \in StoredReadings : Len(rs) <= 1 /\ \A k \in DOMAIN rs : ~rs[k].synced}
  /\ slot \in StoredSlots(readings)
  /\ \E loaded \in {<<>>, Loaded(readings, slot)} :
       /\ bpm = (IF loaded = <<>> THEN Dash ELSE loaded[1].bpm)
       /\ spo2 = (IF loaded = <<>> THEN Dash ELSE loaded[1].spo2)
       /\ lastReadingTime = (IF loaded = <<>> THEN NoTime ELSE loaded[1].timestamp)
  /\ ops = <<>> /\ txOrder = <<>>
  /\ now = LastTime(readings)
  /\ swSync = "idle"

NextStream ==
  \/ \E frame \in Frames : Notification(frame)
  \/ \E i \in 1..Len(ops) : SaveOpenFail(i)
  \/ \E i \in 1..Len(ops) : SaveOpenOk(i)
  \/ \E i \in 1..Len(ops) : SaveAddDone(i)
  \/ Disconnect
  \/ Tick

SpecStream == InitStream /\ [][NextStream]_vars

\* A streaming session whose startup loadLatestReading has not answered yet:
\* the measurements arrive while getLatestReading is still under way
InitLoad ==
  /\ Streaming
  /\ bpm = Dash /\ spo2 = Dash /\ lastReadingTime = NoTime
  /\ isOnline = TRUE
  /\ readings \in {rs \in StoredReadings : Len(rs) <= 1 /\ \A k \in DOMAIN rs : ~rs[k].synced}
  /\ slot \in StoredSlots(readings)
  /\ ops = <<NewOp("getLatestReading", "startup")>> /\ txOrder = <<>>
  /\ now = LastTime(readings)
  /\ swSync = "idle"

NextLoad ==
  \/ \E frame \in Frames : Notification(frame)
  \/ \E i \in 1..Len(ops) : LatestOpenFail(i)
  \/ \E i \in 1..Len(ops) : LatestOpenOk(i)
  \/ \E i \in 1..Len(ops) : LatestCursorDone(i)
  \/ \E i \in 1..Len(ops) : SaveOpenFail(i)
  \/ \E i \in 1..Len(ops) : SaveOpenOk(i)
  \/ \E i \in 1..Len(ops) : SaveAddDone(i)
  \/ Tick

SpecLoad == InitLoad /\ [][NextLoad]_vars

\* the waveform frames of the waveform specification: k samples counting up
\* from a base value
WaveFrame(k, base) == <<TagWaveform>> \o [j \in 1..k |-> (base + j) % 256]

WaveLengths == {0, 1, 3, W - 1, W, W + 1}

WaveFrames == {WaveFrame(k, base) : k \in WaveLengths, base \in {0, 100}}

WaveNotification(frame) ==
  /\ gattConnected /\ listeners > 0
  /\ Len(rx) < MaxWaveFrames
  /\ HandleNotification(frame)

\* A streaming session that receives waveform frames of every length class
InitWave ==
  /\ Streaming
  /\ bpm = Dash /\ spo2 = Dash /\ lastReadingTime = NoTime
  /\ isOnline = TRUE
  /\ readings = <<>> /\ slot = <<>> /\ ops = <<>> /\ txOrder = <<>>
  /\ now = 1
  /\ swSync = "idle"

NextWave ==
  \/ \E frame \in WaveFrames : WaveNotification(frame)
  \/ Disconnect

SpecWave == InitWave /\ [][NextWave]_vars

\* the byte values of the decoder specification: the two tags, the ends of
\* the byte range and a value in between
Bytes == {0, 80, TagWaveform, TagMeasure, 255}

RECURSIVE ByteSeqs(_)
ByteSeqs(n) ==
  IF n = 0 THEN {<<>>}
  ELSE LET shorter == ByteSeqs(n - 1)
       IN  shorter \cup {Append(q, b) : q \in {x \in shorter : Len(x) = n - 1}, b \in Bytes}

\* every value the characteristic can notify, up to MaxBytes bytes
DecodeFrames == ByteSeqs(MaxBytes)

\* one notification of any value to a session that has received nothing yet
DecodeNotification(frame) ==
  /\ gattConnected /\ listeners > 0
  /\ rx = <<>>
  /\ HandleNotification(frame)

\* The decoder: a streaming session receives one frame of any bytes
NextDecode ==
  \/ \E frame \in DecodeFrames : DecodeNotification(frame)
  \/ Disconnect

SpecDecode == InitWave /\ [][NextDecode]_vars

\* Reachability and the sync queue: the application after its first render on
\* any stored state, the online and offline events, the sync event of the
\* service worker, and a saveReading call with its steps
InitSync ==
  /\ InitApp
  /\ isOnline \in BOOLEAN
  /\ readings \in StoredReadings
  /\ slot \in StoredSlots(readings)
  /\ ops = <<>> /\ txOrder = <<>>
  /\ now = LastTime(readings)
  /\ swSync \in {"unsupported", IF isOnline THEN "registered" ELSE "idle"}

NextSync ==
  \/ Online
  \/ Offline
  \/ SyncEvent
  \/ ops = <<>> /\ CallSaveReading(80, 97)
  \/ \E i \in 1..Len(ops) : SaveOpenFail(i)
  \/ \E i \in 1..Len(ops) : SaveOpenOk(i)
  \/ \E i \in 1..Len(ops) : SaveAddDone(i)

SpecSync == InitSync /\ [][NextSync]_vars

\* --------------------------------------------------------------- the claims

SetupPcs == {"gattConnect", "getPrimaryService", "getCharacteristics", "startNotifications"}

\* the frame handled by the step, and its payload
LastFrame == rx'[Len(rx')]

\* C1: after any sequence of waveform frames of any payload length, the
\* waveform buffer holds at most W = 200 entries
C1_WaveformBounded == Len(waveformBuf) <= W

\* C2: a frame of k <= W samples handled on a full buffer leaves the old
\* entries k+1..W followed by the k new samples
C2_FullBufferEvictsOldest ==
  [][(Len(waveformBuf) = W /\ Len(rx') = Len(rx) + 1 /\ Len(LastFrame) - 1 <= W)
       => waveformBuf' = SubSeq(waveformBuf, Len(LastFrame), W) \o Tail(LastFrame)]_vars

\* C3: a step of the GATT setup that fails, under connect() or reconnect() and
\* whatever the name of the error, leaves the session Disconnected with an
\* error message set
C3_SetupFailureSurfaces ==
  [][\A r \in DOMAIN runs :
       (runs[r].pc \in SetupPcs /\ runs'[r] = NoRun /\ listeners' = listeners)
         => (isConnected' = FALSE /\ error' /= <<>>)]_vars

\* C4: at most one GATT setup sequence is in flight at any time
C4_OneSetupAtATime == Cardinality({r \in DOMAIN runs : runs[r].pc \in SetupPcs}) <= 1

\* C5: a saveReading that fails on the primary store (open, transaction or
\* add request) has written the fallback slot, or tried to, before it raises
C5_FailedSaveWritesFallback ==
  \A i \in DOMAIN ops :
    (ops[i].op = "saveReading" /\ ops[i].pc = "rejected") => ops[i].fallback /= "none"

\* C6: getLatestReading never raises: it resolves with the newest record of a
\* primary store that answers and is not empty, and with the slot (or null)
\* when the primary store is empty, cannot be opened or its cursor fails
C6_LatestNeverRaises ==
  [][\A i \in DOMAIN ops :
       (ops[i].op = "getLatestReading" /\ ~Settled(ops[i]) /\ Settled(ops'[i]))
         => /\ ops[i].pc = "request"
                 => ops'[i].pc = "resolved" /\ ops'[i].out \in {Loaded(readings, slot), slot}
            /\ ops[i].pc = "open" /\ ops'[i].pc = "resolved" => ops'[i].out = slot]_vars

\* C7: a query whose open or whose cursor request fails resolves with the
\* empty sequence and does not raise
C7_QueryFailureIsEmpty ==
  [][\A i \in DOMAIN ops :
       (ops[i].op \in {"getReadings", "getUnsyncedReadings"} /\ ~Settled(ops[i]) /\ Settled(ops'[i]))
         => /\ ops[i].pc = "request" => ops'[i].pc = "resolved"
            /\ ops[i].pc = "open" /\ ops'[i].pc = "resolved" => ops'[i].out = <<>>]_vars

\* the ids of a markReadingsAsSynced call that have a record and none of
\* whose own requests failed
Markable(o) == {k \in 1..Len(o.ids) : o.ids[k] \in DOMAIN readings /\ o.ids[k] \notin o.failed}

\* C8: a markReadingsAsSynced that ran its transaction returns the number of
\* ids that have a record and did not fail, and each of them is synced,
\* whatever happened to the other ids
C8_MarkCountsEachId ==
  \A i \in DOMAIN ops :
    (ops[i].op = "markReadingsAsSynced" /\ ops[i].pc = "resolved" /\ ops[i].snap /= <<>>)
      => /\ ops[i].n = Cardinality(Markable(ops[i]))
         /\ \A k \in Markable(ops[i]) : readings[ops[i].ids[k]].synced

\* a call of getUnsyncedReadings is issued by the step
CallsUnsynced ==
  \E i \in DOMAIN ops' : i \notin DOMAIN ops /\ ops'[i].op = "getUnsyncedReadings"

\* C9: a transition from offline to online calls getUnsyncedReadings, itself
\* or through the background sync it registers, whose sync event then calls it
C9_OnlineFlushesQueue ==
  [][/\ (~isOnline /\ isOnline') => (CallsUnsynced \/ swSync' = "registered")
     /\ (swSync = "registered" /\ swSync' = "fired") => CallsUnsynced]_vars

\* the frames of the scenario
Short == <<TagMeasure, 80, 97>>
Measure == <<TagMeasure, 80, 97, 0>>
Wave == <<TagWaveform, 50, 51, 52>>

Persisted8097 == {k \in DOMAIN readings : readings[k].bpm = 80 /\ readings[k].spo2 = 97}

\* C10: a streaming session with one listener and an empty buffer receives
\* Short, Measure, Wave: Short changes nothing; then the vitals are 80 and 97,
\* one saveReading(80, 97) is started and, once it has resolved, exactly one
\* reading with these values is persisted; the buffer ends as <<50, 51, 52>>
C10_Scenario ==
  /\ [][(rx = <<>> /\ rx' = <<Short>>)
          => UNCHANGED <<bpm, spo2, lastReadingTime, waveformBuf, isConnected, error, storeVars>>]_vars
  /\ [](rx = <<Short, Measure, Wave>>
          => /\ bpm = 80 /\ spo2 = 97
             /\ waveformBuf = <<50, 51, 52>>
             /\ Len(ops) = 1 /\ ops[1].op = "saveReading" /\ ops[1].bpm = 80 /\ ops[1].spo2 = 97
             /\ Cardinality(Persisted8097) = (IF ops[1].pc = "resolved" THEN 1 ELSE 0))

C10_Witness ==
  /\ rx = <<Short, Measure, Wave>>
  /\ ops[1].pc = "resolved"
  /\ Cardinality(Persisted8097) = 1
  /\ waveformBuf = <<50, 51, 52>>

\* the frame received in the decoder specification
Received == rx[1]

Decoded == bufferToSamples(Received)

\* C11: bufferToSamples returns a sample or null for every byte sequence, and
\* null for the empty one, for a measurement tag with fewer than 4 bytes and
\* for a tag that is neither 0xF0 nor 0xF1; the handler then changes nothing
C11_DecodeRejects ==
  /\ [](rx /= <<>> =>
          /\ Decoded.type \in {"null", "measure", "waveform"}
          /\ Len(Received) = 0 => Decoded = NoSample
          /\ (Len(Received) \in 1..3 /\ Received[1] = TagMeasure) => Decoded = NoSample
          /\ (Len(Received) >= 1 /\ Received[1] \notin {TagWaveform, TagMeasure}) => Decoded = NoSample)
  /\ [][(rx = <<>> /\ rx' /= <<>> /\ bufferToSamples(rx'[1]) = NoSample)
          => UNCHANGED <<appVars, storeVars, gattConnected, listeners, runs>>]_vars

C11_Witness ==
  /\ rx \in {<<<<>>>>, <<<<TagMeasure, 80, 255>>>>, <<<<80, 80, 255, 0>>>>}
  /\ bpm = Dash /\ waveformBuf = <<>> /\ ops = <<>>

\* C12: a frame with the measurement tag and at least 4 bytes decodes to the
\* measurement with bpm = byte 1 and spo2 = byte 2 whatever follows, and a
\* frame with the waveform tag to the waveform of all bytes after the tag
C12_DecodeAccepts ==
  rx /= <<>> =>
    /\ (Len(Received) >= MeasureMinLen /\ Received[1] = TagMeasure)
          => /\ Decoded = [type |-> "measure", bpm |-> Received[2], spo2 |-> Received[3], samples |-> <<>>]
             /\ bpm = Received[2] /\ spo2 = Received[3]
    /\ (Len(Received) >= 1 /\ Received[1] = TagWaveform)
          => /\ Decoded = [type |-> "waveform", bpm |-> 0, spo2 |-> 0,
                           samples |-> SubSeq(Received, 2, Len(Received))]
             /\ waveformBuf = SubSeq(Received, 2, Len(Received))

C12_Witness ==
  \/ rx = <<<<TagMeasure, 80, 255, 0>>>> /\ bpm = 80 /\ spo2 = 255
  \/ rx = <<<<TagWaveform>>>> /\ waveformBuf = <<>>

\* C13: in a session that connect() has brought to Streaming, the disconnect
\* event of the remembered device sets the session Disconnected, with the
\* message of handleDisconnect
C13_DisconnectEvent ==
  [][(isConnected /\ gattConnected /\ listeners > 0 /\ device /= Null /\ ~gattConnected')
       => /\ isConnected' = FALSE
          /\ error' = <<"Device disconnected. Reconnect to continue monitoring.">>
          /\ UNCHANGED <<device, bpm, spo2, lastReadingTime>>]_vars

C13_Witness ==
  /\ ~isConnected /\ ~gattConnected /\ listeners = 0 /\ device = Oximeter
  /\ error = <<"Device disconnected. Reconnect to continue monitoring.">>

\* the runs at the device chooser
Choosing(rs) == {r \in DOMAIN rs : rs[r].pc = "requestDevice"}

\* C14: reconnect() without a remembered device sets the error "No device to
\* reconnect to." and starts nothing, the session staying Disconnected; with
\* a remembered device it starts the GATT setup on it and opens no chooser
C14_ReconnectUsesRemembered ==
  [][CallReconnect =>
       IF device = Null
         THEN /\ Head(error') = "No device to reconnect to."
              /\ runs' = runs
              /\ ~isConnected /\ ~isConnected'
              /\ UNCHANGED <<device, gattConnected, listeners>>
         ELSE /\ \E r \in DOMAIN runs :
                   /\ runs[r] = NoRun /\ runs'[r].pc = "gattConnect"
                   /\ \A q \in DOMAIN runs \ {r} : runs'[q] = runs[q]
              /\ Choosing(runs') = Choosing(runs)
              /\ device' = device]_vars

C14_Witness ==
  \/ device = Null /\ ~isConnected /\ error = <<"No device to reconnect to.", "Please connect first.">>
  \/ device = Oximeter /\ ~isConnected /\ \E r \in DOMAIN runs : runs[r] = [kind |-> "reconnect", pc |-> "gattConnect"]

\* C15: the user dismisses the chooser of connect(): the run ends, the
\* session is Disconnected, the cancellation shows no message, and the
\* vitals, the waveform buffer and the remembered device are as they were
C15_CancelEndsDisconnected ==
  [][\A r \in DOMAIN runs :
       RequestDeviceSettles(r, "NotFoundError")
         => /\ runs'[r] = NoRun
            /\ isConnected' = FALSE
            /\ error' = error
            /\ UNCHANGED <<bpm, spo2, lastReadingTime, waveformBuf, device>>]_vars

\* C16: the handler of a measurement frame sets bpm, spo2 and the time of the
\* reading in the step that starts saveReading, before that save has taken
\* any step; a save that fails later changes neither the vitals nor the session
C16_VitalsBeforeSave ==
  /\ [][(Len(rx') = Len(rx) + 1 /\ bufferToSamples(LastFrame).type = "measure")
          => /\ bpm' = LastFrame[2] /\ spo2' = LastFrame[3] /\ lastReadingTime' = now
             /\ Len(ops') = Len(ops) + 1
             /\ ops'[Len(ops')].op = "saveReading" /\ ops'[Len(ops')].pc = "open"
             /\ readings' = readings]_vars
  /\ [][(\E i \in DOMAIN ops : ops[i].op = "saveReading" /\ ops[i].pc /= "rejected"
                                   /\ ops'[i].pc = "rejected")
          => UNCHANGED <<bpm, spo2, lastReadingTime, isConnected, error, device, waveformBuf,
                         gattConnected, listeners>>]_vars

C16_Witness ==
  /\ bpm = 80 /\ spo2 = 97 /\ lastReadingTime = now /\ isConnected /\ error = <<>>
  /\ \E i \in DOMAIN ops : ops[i].op = "saveReading" /\ ops[i].pc = "rejected"
  /\ readings = <<>>

\* a markReadingsAsSynced call that ran its transaction to the end with no
\* failing request
RanClean(o) ==
  o.op = "markReadingsAsSynced" /\ o.pc = "resolved" /\ o.snap /= <<>> /\ o.failed = {}

\* the ids a call names
IdsOf(o) == {o.ids[k] : k \in 1..Len(o.ids)}

\* a record without its synced flag
Unflagged(r) == [r EXCEPT !.synced = FALSE]

\* C17: concurrent markReadingsAsSynced calls lose no update: a record named
\* by a call that ran to its end is synced from then on, whatever the other
\* calls do before or after, and no step changes its other fields
C17_NoLostUpdate ==
  /\ [](\A i \in DOMAIN ops : RanClean(ops[i]) =>
          \A k \in IdsOf(ops[i]) \cap DOMAIN readings : readings[k].synced)
  /\ [][\A k \in DOMAIN readings :
          k \in DOMAIN readings' /\ Unflagged(readings'[k]) = Unflagged(readings[k])]_vars

C17_Witness ==
  \E i, j \in DOMAIN ops :
    /\ Len(readings) >= 2
    /\ i /= j /\ RanClean(ops[i]) /\ RanClean(ops[j])
    /\ ops[i].ids = <<1, 2>> /\ ops[j].ids = <<2, 1>>
    /\ ~ops[i].snap[1][1].synced /\ ~ops[i].snap[1][2].synced
    /\ readings[1].synced /\ readings[2].synced
    /\ readings[1].bpm = 71 /\ readings[2].bpm = 72

\* the id the handler's saveReading resolved with
SavedId == ops[1].n

\* C18: saveReading resolves with the id of the record it added; a
\* markReadingsAsSynced([id]) that then runs to its end returns 1 and leaves
\* the record synced; a further one returns 1 again and, when it resolves,
\* the store is what it was when its transaction started
C18_MarkIsIdempotent ==
  /\ []((ops /= <<>> /\ ops[1].op = "saveReading" /\ ops[1].pc = "resolved") =>
          /\ SavedId \in DOMAIN readings
          /\ readings[SavedId].id = SavedId
          /\ readings[SavedId].bpm = ops[1].bpm /\ readings[SavedId].spo2 = ops[1].spo2
          /\ \A i \in DOMAIN ops : RanClean(ops[i]) =>
                ops[i].ids = <<SavedId>> /\ ops[i].n = 1 /\ readings[SavedId].synced)
  /\ [][\A i \in DOMAIN ops :
          (~RanClean(ops[i]) /\ RanClean(ops'[i]) /\ ops'[i].snap[1][SavedId].synced)
            => readings' = ops'[i].snap[1] /\ slot' = slot]_vars

C18_Witness ==
  /\ Len(ops) = 3 /\ ops[1].pc = "resolved"
  /\ RanClean(ops[2]) /\ RanClean(ops[3])
  /\ ops[2].n = 1 /\ ops[3].n = 1
  /\ ~ops[2].snap[1][SavedId].synced /\ ops[3].snap[1][SavedId].synced
  /\ readings = ops[3].snap[1]

\* the stored records with synced = false, in the order of their ids
Unsynced == SelectSeq(readings, LAMBDA r : ~r.synced)

\* C19: getUnsyncedReadings(limit) whose cursor runs to its end resolves with
\* the first min(limit, number of unsynced records) unsynced records in the
\* order of their ids, and with no synced record
C19_UnsyncedScan ==
  [][\A i \in DOMAIN ops :
       (ops[i].op = "getUnsyncedReadings" /\ QueryCursor(i, TRUE))
         => /\ ops'[i].pc = "resolved"
            /\ ops'[i].out = SubSeq(Unsynced, 1, Min(ops[i].limit, Len(Unsynced)))
            /\ \A k \in 1..Len(ops'[i].out) : ops'[i].out[k].synced = FALSE]_vars

C19_Witness ==
  /\ Len(readings) >= 2 /\ readings[1].synced /\ ~readings[2].synced
  /\ Len(ops) = 1 /\ ops[1].op = "getUnsyncedReadings" /\ ops[1].pc = "resolved"
  /\ ops[1].limit = 1 /\ ops[1].out = <<readings[2]>>

\* the result of a getReadings call is newest first
Descending(out) == \A k \in 1..(Len(out) - 1) : ~Newer(out[k + 1], out[k])

\* the records of the range that the result leaves out
LeftOut(out, start, end) ==
  {r \in Records(readings) : start <= r.timestamp /\ r.timestamp <= end
                               /\ \A k \in 1..Len(out) : out[k] /= r}

\* C20: getReadings(start, end, limit) on a store that answers opens its
\* cursor for every start and end, and resolves with at most limit records of
\* the range, newest first, none of the records left out being newer than
\* one returned and none left out while there is room
C20_RangeRead ==
  [][\A i \in DOMAIN ops : ops[i].op = "getReadings" =>
       /\ QueryOpens(i, TRUE) => ops'[i].pc = "request"
       /\ QueryCursor(i, TRUE) =>
            LET out == ops'[i].out
                start == ops[i].lo
                end == ops[i].hi
            IN  /\ ops'[i].pc = "resolved"
                /\ Len(out) <= ops[i].limit
                /\ \A k \in 1..Len(out) :
                     out[k] \in Records(readings) /\ start <= out[k].timestamp /\ out[k].timestamp <= end
                /\ Descending(out)
                /\ \A r \in LeftOut(out, start, end) :
                     Len(out) = ops[i].limit /\ \A k \in 1..Len(out) : ~Newer(r, out[k])]_vars

\* C21: after a saveReading(bpm, spo2) that resolved, with no other save, a
\* getLatestReading whose cursor answers resolves with the record that save
\* added: its id, its bpm and spo2, and synced = false
C21_RoundTrip ==
  [][\A i \in DOMAIN ops :
       (ops[1].op = "saveReading" /\ ops[1].pc = "resolved" /\ LatestCursor(i, TRUE))
         => /\ ops'[i].pc = "resolved"
            /\ Len(ops'[i].out) = 1
            /\ ops'[i].out[1].id = SavedId
            /\ ops'[i].out[1].bpm = ops[1].bpm /\ ops'[i].out[1].spo2 = ops[1].spo2
            /\ ops'[i].out[1].synced = FALSE]_vars

C21_Witness ==
  /\ Len(ops) >= 2 /\ ops[1].op = "saveReading" /\ ops[1].pc = "resolved"
  /\ Len(readings) >= 2 /\ SavedId = Len(readings)
  /\ readings[1].timestamp = readings[SavedId].timestamp
  /\ ops[2].op = "getLatestReading" /\ ops[2].pc = "resolved"
  /\ ops[2].out = <<readings[SavedId]>> /\ ops[2].out[1].bpm = 80 /\ ops[2].out[1].spo2 = 97

\* C22: measurements are persisted in arrival order: of two handler saves
\* that both resolved, the one called first has the smaller id and a timestamp
\* not later than the other's
C22_ArrivalOrder ==
  \A i \in DOMAIN ops : \A j \in DOMAIN ops :
    (/\ i < j
     /\ ops[i].op = "saveReading" /\ ops[j].op = "saveReading"
     /\ ops[i].pc = "resolved" /\ ops[j].pc = "resolved")
      => /\ ops[i].n < ops[j].n
         /\ ops[j].n <= Len(readings)
         /\ readings[ops[i].n].timestamp <= readings[ops[j].n].timestamp

C22_Witness ==
  /\ Len(ops) >= 2
  /\ ops[1].op = "saveReading" /\ ops[2].op = "saveReading"
  /\ ops[1].pc = "resolved" /\ ops[2].pc = "resolved"
  /\ Len(rx) >= 2
  /\ ops[1].n < ops[2].n /\ ops[2].n <= Len(readings)
  /\ readings[ops[1].n].timestamp < readings[ops[2].n].timestamp

\* the records as committed: the writes of a markReadingsAsSynced transaction
\* that is still running are not part of the store until it completes, and an
\* abort takes them back
Running(o) == o.op = "markReadingsAsSynced" /\ o.pc = "request" /\ o.snap /= <<>>

Committed ==
  IF \E i \in DOMAIN ops : Running(ops[i])
    THEN (ops[CHOOSE i \in DOMAIN ops : Running(ops[i])]).snap[1]
    ELSE readings

\* C23: the store only grows, a persisted reading keeps its id, bpm, spo2 and
\* timestamp, and its synced flag changes only in a step of
\* markReadingsAsSynced and only from false to true
C23_AppendOnly ==
  [][/\ Len(Committed') >= Len(Committed)
     /\ \A k \in DOMAIN Committed :
          /\ Committed'[k].id = Committed[k].id
          /\ Committed'[k].bpm = Committed[k].bpm
          /\ Committed'[k].spo2 = Committed[k].spo2
          /\ Committed'[k].timestamp = Committed[k].timestamp
          /\ Committed[k].synced => Committed'[k].synced
          /\ Committed'[k].synced /= Committed[k].synced
               => \E i \in DOMAIN ops : MarkRequestDone(i)]_vars

\* a saved reading next to an older one that a mark has flagged, after a
\* mark of two ids was undone by an abort
C23_Witness ==
  /\ Len(readings) >= 2
  /\ readings[1].synced /\ ~readings[Len(readings)].synced
  /\ \E i \in DOMAIN ops : ops[i].op = "saveReading" /\ ops[i].pc = "resolved"
  /\ \E i \in DOMAIN ops :
       /\ ops[i].op = "markReadingsAsSynced" /\ ops[i].pc = "resolved"
       /\ ops[i].completed = 1 /\ ops[i].errors = 1 /\ ops[i].failed /= {}

\* C24: every notification is handled exactly once, whatever connect(),
\* reconnect() and disconnect events came before: a measurement starts
\* exactly one saveReading, and a waveform frame of k samples adds exactly k
\* entries to the waveform buffer (which stays below its capacity here)
C24_HandledOnce ==
  [][\A frame \in Frames :
       Notification(frame) =>
         LET result == bufferToSamples(frame)
         IN  /\ result.type = "measure" => Len(ops') = Len(ops) + 1
             /\ result.type = "waveform"
                  => Len(waveformBuf') = Min(W, Len(waveformBuf) + Len(result.samples))]_vars

\* C25: a call of markReadingsAsSynced(ids) settles in the end, with its
\* count, for every list of ids, when every request that was issued fires
C25_MarkSettles ==
  (ops /= <<>>) ~> (ops /= <<>> /\ Settled(ops[1]))

\* C26: the startup loadLatestReading never overwrites vitals that a live
\* measurement has set: a step in which its getLatestReading answers leaves
\* bpm and spo2 alone once they are no longer "--"
C26_LoadKeepsLive ==
  [][\A i \in DOMAIN ops :
       (/\ ops[i].by = "startup"
        /\ LatestOpenFail(i) \/ LatestCursorDone(i))
         => /\ bpm /= Dash => bpm' = bpm
            /\ spo2 /= Dash => spo2' = spo2]_vars

\* C27: getLatestReading returns the most recently appended reading of the
\* two tiers: after a saveReading that failed on the store and wrote the
\* slot, later than every stored record, a getLatestReading whose cursor
\* answers resolves with the slot's reading
C27_NewestOfTiers ==
  [][\A i \in DOMAIN ops :
       (/\ ops[1].op = "saveReading" /\ ops[1].pc = "rejected"
        /\ ops[1].fallback = "written"
        /\ LatestCursor(i, TRUE))
         => /\ ops'[i].pc = "resolved"
            /\ Len(ops'[i].out) = 1
            /\ ops'[i].out[1].bpm = ops[1].bpm /\ ops'[i].out[1].spo2 = ops[1].spo2
            /\ ops'[i].out[1].timestamp = slot[1].timestamp]_vars

====
